---- MODULE Spec2Model ----
(***************************************************************************)
(* The assignment and quiz generator of app.py: QuizGenerator and the      *)
(* Generate handler of main().  A Python str is a sequence of characters,  *)
(* each character a one-character string; a character outside ASCII is    *)
(* written by its code point ("U+00E9").                                   *)
(***************************************************************************)
EXTENDS Integers, Sequences, FiniteSets, TLC

VARIABLES input_text, topic, pc, assignment_templates, question_starters,
          sentences, key_terms, subject, assignments, quiz_questions, outcome,
          export_content, invoked, rnd

vars == <<input_text, topic, pc, assignment_templates, question_starters,
          sentences, key_terms, subject, assignments, quiz_questions, outcome,
          export_content, invoked, rnd>>

(***************************************************************************)
(* Characters and the str methods the program uses.                        *)
(***************************************************************************)
UpperChars == <<"A","B","C","D","E","F","G","H","I","J","K","L","M","N","O","P","Q","R","S","T","U","V","W","X","Y","Z">>

LowerChars == <<"a","b","c","d","e","f","g","h","i","j","k","l","m","n","o","p","q","r","s","t","u","v","w","x","y","z">>

DigitChars == <<"0","1","2","3","4","5","6","7","8","9">>

Range(s) == {s[i] : i \in DOMAIN s}

\* The class [a-zA-Z] of the pattern.
IsLetter(c) == c \in Range(UpperChars) \cup Range(LowerChars)

\* The class \w of a str pattern: letters, digits, the underscore and every
\* other alphanumeric of Unicode (here the one the inputs use).
IsWordChar(c) == IsLetter(c) \/ c \in Range(DigitChars) \/ c = "_" \/ c = "U+00E9"

\* What str.strip() removes.
IsSpace(c) == c \in {" ", "\t", "\n", "\r"}

\* The class [.!?] of the split pattern.
IsSentenceEnd(c) == c \in {".", "!", "?"}

LowerOf == [c \in Range(UpperChars) |->
              LowerChars[CHOOSE i \in 1..26 : UpperChars[i] = c]]

\* str.lower()
lower(s) == [i \in 1..Len(s) |-> IF s[i] \in DOMAIN LowerOf THEN LowerOf[s[i]] ELSE s[i]]

\* str.strip()
strip(s) ==
  LET keep == {i \in 1..Len(s) : ~IsSpace(s[i])}
  IN IF keep = {} THEN <<>>
     ELSE SubSeq(s, CHOOSE i \in keep : \A j \in keep : i <= j,
                    CHOOSE i \in keep : \A j \in keep : i >= j)

\* s[:n]
slice_to(s, n) == SubSeq(s, 1, IF Len(s) < n THEN Len(s) ELSE n)

RECURSIVE join(_)
\* The concatenation of a sequence of strings.
join(ss) == IF ss = <<>> THEN <<>> ELSE Head(ss) \o join(Tail(ss))

\* Mutant of index: the place the answer had before the shuffle.
index_before_shuffle(xs, x) == 0

\* list.index(x): the 0-based position of the first element equal to x.
index(xs, x) == (CHOOSE i \in 1..Len(xs) : xs[i] = x /\ \A j \in 1..(i - 1) : xs[j] # x) - 1

\* str.format with one argument: the first "{}" of the template is replaced.
format(template, arg) ==
  LET holes == {i \in 1..(Len(template) - 1) : template[i] = "{" /\ template[i + 1] = "}"}
      h == CHOOSE i \in holes : \A j \in holes : i <= j
  IN SubSeq(template, 1, h - 1) \o arg \o SubSeq(template, h + 2, Len(template))

(***************************************************************************)
(* QuizGenerator.extract_key_terms                                         *)
(***************************************************************************)
stopwords ==
  { <<"t","h","e">>, <<"a">>, <<"a","n">>, <<"a","n","d">>, <<"o","r">>, <<"b","u","t">>, <<"i","n">>, <<"o","n">>, <<"a","t">>, <<"t","o">>, <<"f","o","r">>,
    <<"o","f">>, <<"w","i","t","h">>, <<"b","y">>, <<"i","s">>, <<"a","r","e">>, <<"w","a","s">>, <<"w","e","r","e">>, <<"b","e">>, <<"b","e","e","n">>, <<"b","e","i","n","g">>,
    <<"h","a","v","e">>, <<"h","a","s">>, <<"h","a","d">>, <<"d","o">>, <<"d","o","e","s">>, <<"d","i","d">>, <<"w","i","l","l">>, <<"w","o","u","l","d">>, <<"c","o","u","l","d">>,
    <<"s","h","o","u","l","d">>, <<"m","a","y">>, <<"m","i","g","h","t">>, <<"m","u","s","t">>, <<"c","a","n">>, <<"t","h","i","s">>, <<"t","h","a","t">>, <<"t","h","e","s","e">>, <<"t","h","o","s","e">> }

\* Terms of this length or shorter are dropped.
MinTermLen == 3

\* How many ranked terms are returned.
TopTerms == 10

\* Mutant of WordBoundary: the pattern without its \b.
WordBoundary_absent(s, i) == TRUE

\* \b at offset i of s: exactly one of the characters around it is a word character.
WordBoundary(s, i) ==
  LET before == i >= 1 /\ IsWordChar(s[i])
      after == i < Len(s) /\ IsWordChar(s[i + 1])
  IN before # after

\* The least member of a set of integers, or otherwise when it has none.
least(S, otherwise) == IF S = {} THEN otherwise ELSE CHOOSE x \in S : \A y \in S : x <= y

\* The offset where the greedy [a-zA-Z]+ begun at offset i stops.
LetterRunEnd(s, i) == least({j \in (i + 1)..Len(s) : ~IsLetter(s[j])}, Len(s) + 1) - 1

RECURSIVE findall_words(_, _)
\* re.findall(r'\b[a-zA-Z]+\b', s), scanning from offset i: a match begins at
\* the next \b before a letter, takes letters greedily and gives them back
\* until a \b follows; with no \b to end at, the scan moves on by one.
findall_words(s, i) ==
  LET a == least({j \in i..(Len(s) - 1) : WordBoundary(s, j) /\ IsLetter(s[j + 1])}, Len(s))
      ends == {k \in (a + 1)..LetterRunEnd(s, a) : WordBoundary(s, k)}
  IN IF a >= Len(s) THEN <<>>
     ELSE IF ends = {} THEN findall_words(s, a + 1)
     ELSE LET k == CHOOSE e \in ends : \A f \in ends : e >= f
          IN <<SubSeq(s, a + 1, k)>> \o findall_words(s, k)

\* The filter of line 42.
is_key_term(word) == word \notin stopwords /\ Len(word) > MinTermLen

RECURSIVE count_terms(_, _)
\* The loop of lines 45-47: term_freq as its items in insertion order.
count_terms(terms, term_freq) ==
  IF terms = <<>> THEN term_freq
  ELSE LET t == Head(terms)
           at == {i \in 1..Len(term_freq) : term_freq[i][1] = t}
       IN count_terms(Tail(terms),
            IF at = {} THEN Append(term_freq, <<t, 1>>)
            ELSE [i \in 1..Len(term_freq) |->
                    IF i \in at THEN <<t, term_freq[i][2] + 1>> ELSE term_freq[i]])

RECURSIVE sorted_ascending(_)
\* Mutant of sorted_by_freq: the sort without reverse=True.
sorted_ascending(items) ==
  IF items = <<>> THEN <<>>
  ELSE LET low == CHOOSE i \in 1..Len(items) :
                    /\ \A j \in 1..Len(items) : items[j][2] >= items[i][2]
                    /\ \A j \in 1..(i - 1) : items[j][2] > items[i][2]
       IN <<items[low]>> \o
          sorted_ascending(SubSeq(items, 1, low - 1) \o SubSeq(items, low + 1, Len(items)))

RECURSIVE sorted_by_freq(_)
\* sorted(items, key=lambda x: x[1], reverse=True): stable, greatest count first.
sorted_by_freq(items) ==
  IF items = <<>> THEN <<>>
  ELSE LET top == CHOOSE i \in 1..Len(items) :
                    /\ \A j \in 1..Len(items) : items[j][2] <= items[i][2]
                    /\ \A j \in 1..(i - 1) : items[j][2] < items[i][2]
       IN <<items[top]>> \o
          sorted_by_freq(SubSeq(items, 1, top - 1) \o SubSeq(items, top + 1, Len(items)))

extract_key_terms(text) ==
  LET words == findall_words(lower(text), 0)
      kept == SelectSeq(words, is_key_term)
      sorted_terms == sorted_by_freq(count_terms(kept, <<>>))
      shown == slice_to(sorted_terms, TopTerms)
  IN [i \in 1..Len(shown) |-> shown[i][1]]

(***************************************************************************)
(* QuizGenerator.extract_sentences                                         *)
(***************************************************************************)
\* Sentences of this length or shorter are dropped.
MinSentenceLen == 10

RECURSIVE re_split(_, _)
\* re.split(r'[.!?]+', s) of what begins at position from: the piece up to
\* the next [.!?]+, then the pieces after it.
re_split(s, from) ==
  LET e == least({j \in from..Len(s) : IsSentenceEnd(s[j])}, Len(s) + 1)
      after == least({j \in e..Len(s) : ~IsSentenceEnd(s[j])}, Len(s) + 1)
  IN IF e > Len(s) THEN <<SubSeq(s, from, Len(s))>>
     ELSE <<SubSeq(s, from, e - 1)>> \o re_split(s, after)

is_sentence(s) == Len(strip(s)) > MinSentenceLen

extract_sentences(text) ==
  LET kept == SelectSeq(re_split(text, 1), is_sentence)
  IN [i \in 1..Len(kept) |-> strip(kept[i])]

(***************************************************************************)
(* QuizGenerator.__init__                                                  *)
(***************************************************************************)
init_assignment_templates ==
  << <<"A","n","a","l","y","z","e"," ","t","h","e"," ","m","a","i","n"," ","t","h","e","m","e","s"," ","i","n"," ","t","h","e"," ","f","o","l","l","o","w","i","n","g"," ","c","o","n","t","e","n","t",":"," ","{","}">>,
     <<"D","i","s","c","u","s","s"," ","t","h","e"," ","k","e","y"," ","c","o","n","c","e","p","t","s"," ","a","n","d"," ","t","h","e","i","r"," ","r","e","l","a","t","i","o","n","s","h","i","p","s"," ","i","n",":"," ","{","}">>,
     <<"E","v","a","l","u","a","t","e"," ","t","h","e"," ","a","r","g","u","m","e","n","t","s"," ","p","r","e","s","e","n","t","e","d"," ","i","n",":"," ","{","}">>,
     <<"C","o","m","p","a","r","e"," ","a","n","d"," ","c","o","n","t","r","a","s","t"," ","d","i","f","f","e","r","e","n","t"," ","v","i","e","w","p","o","i","n","t","s"," ","o","n",":"," ","{","}">>,
     <<"E","x","p","l","a","i","n"," ","t","h","e"," ","s","i","g","n","i","f","i","c","a","n","c","e"," ","a","n","d"," ","i","m","p","l","i","c","a","t","i","o","n","s"," ","o","f",":"," ","{","}">>,
     <<"C","r","i","t","i","c","a","l","l","y"," ","e","x","a","m","i","n","e"," ","t","h","e"," ","e","v","i","d","e","n","c","e"," ","p","r","e","s","e","n","t","e","d"," ","f","o","r",":"," ","{","}">>,
     <<"D","e","s","c","r","i","b","e"," ","t","h","e"," ","p","r","o","c","e","s","s"," ","o","r"," ","m","e","t","h","o","d","o","l","o","g","y"," ","o","u","t","l","i","n","e","d"," ","i","n",":"," ","{","}">>,
     <<"A","s","s","e","s","s"," ","t","h","e"," ","s","t","r","e","n","g","t","h","s"," ","a","n","d"," ","w","e","a","k","n","e","s","s","e","s"," ","o","f",":"," ","{","}">> >>

init_question_starters ==
  << <<"W","h","a","t"," ","i","s"," ","t","h","e"," ","m","a","i","n">>, <<"W","h","i","c","h"," ","o","f"," ","t","h","e"," ","f","o","l","l","o","w","i","n","g">>, <<"A","c","c","o","r","d","i","n","g"," ","t","o"," ","t","h","e"," ","t","e","x","t">>,
     <<"T","h","e"," ","p","r","i","m","a","r","y"," ","p","u","r","p","o","s","e">>, <<"W","h","a","t"," ","d","o","e","s"," ","t","h","e"," ","a","u","t","h","o","r">>, <<"W","h","i","c","h"," ","s","t","a","t","e","m","e","n","t"," ","b","e","s","t">>,
     <<"T","h","e"," ","t","e","x","t"," ","s","u","g","g","e","s","t","s"," ","t","h","a","t">>, <<"W","h","a","t"," ","c","a","n"," ","b","e"," ","i","n","f","e","r","r","e","d">> >>

\* The value of an argument or a result that is absent (Python's None): no
\* str, since no character is "None".
None == <<"None">>

\* The truth value of an optional str: None and "" are false.
truthy(s) == s # None /\ s # <<>>

(***************************************************************************)
(* The random module: each operator takes the value the random source      *)
(* gave, and a set names the values it can give.                           *)
(***************************************************************************)
\* Mutant of sample_draws: positions drawn with replacement.
sample_draws_with_replacement(n, k) == [1..k -> 1..n]

\* random.sample(population, k) draws k distinct positions, in order.
sample_draws(n, k) == {d \in [1..k -> 1..n] : \A a, b \in 1..k : a # b => d[a] # d[b]}

random_sample(population, draw) == [a \in DOMAIN draw |-> population[draw[a]]]

\* random.choice(seq) draws one position.
choice_draws(seq) == 1..Len(seq)

random_choice(seq, draw) == seq[draw]

\* random.shuffle(x) draws one arrangement of the positions.
shuffle_draws(n) == {p \in [1..n -> 1..n] : \A a, b \in 1..n : a # b => p[a] # p[b]}

random_shuffle(x, draw) == [a \in 1..Len(x) |-> x[draw[a]]]

\* The draws a call has not consumed.
NoDraws == [sample |-> <<>>, term |-> 0, term_shuffle |-> <<>>,
            sentence |-> 0, sentence_shuffle |-> <<>>]

(***************************************************************************)
(* QuizGenerator.generate_assignments, extract_main_subject                *)
(***************************************************************************)
\* How many templates a call selects.
NumSelected == 2

extract_main_subject(text) ==
  LET terms == extract_key_terms(text)
  IN IF terms # <<>> THEN <<"t","h","e"," ","c","o","n","c","e","p","t"," ","o","f"," ">> \o terms[1] ELSE <<"t","h","e"," ","g","i","v","e","n"," ","c","o","n","t","e","n","t">>

\* Mutant of resolve_subject: a topic of white space counts as absent.
resolve_subject_trimmed(text, a_topic) ==
  IF truthy(a_topic) /\ strip(a_topic) # <<>> THEN a_topic ELSE extract_main_subject(text)

\* Line 63: the topic if provided, otherwise the subject of the text.
resolve_subject(text, a_topic) ==
  IF truthy(a_topic) THEN a_topic ELSE extract_main_subject(text)

\* Lines 66-72: the selected templates filled with the subject.
assignments_for(templates, the_subject, draw) ==
  LET selected_templates == random_sample(templates, draw)
  IN [a \in 1..Len(selected_templates) |-> format(selected_templates[a], the_subject)]

generate_assignments(templates, text, a_topic, draw) ==
  assignments_for(templates, resolve_subject(text, a_topic), draw)

(***************************************************************************)
(* QuizGenerator.generate_quiz_questions and the question builders         *)
(***************************************************************************)
\* How many questions a call builds.
NumQuestions == 3

\* The definition question draws from this many top terms.
TopChoice == 5

\* The comprehension question draws from this many first sentences.
FirstSentences == 3

\* The comprehension answer quotes this many characters of the sentence.
QuoteLen == 50

\* Mutant of create_fallback_question: the first two options change places.
create_fallback_question_reordered(sents) ==
  [question |-> <<"W","h","a","t"," ","i","s"," ","t","h","e"," ","p","r","i","m","a","r","y"," ","c","h","a","r","a","c","t","e","r","i","s","t","i","c"," ","o","f"," ","t","h","e"," ","p","r","o","v","i","d","e","d"," ","t","e","x","t","?">>,
   options |-> << <<"I","t"," ","i","s"," ","c","o","m","p","l","e","t","e","l","y"," ","e","m","p","t","y">>,
                  <<"I","t"," ","c","o","n","t","a","i","n","s"," ","i","n","f","o","r","m","a","t","i","v","e"," ","c","o","n","t","e","n","t">>,
                  <<"I","t"," ","c","o","n","s","i","s","t","s"," ","o","n","l","y"," ","o","f"," ","n","u","m","b","e","r","s">>,
                  <<"I","t"," ","i","s"," ","w","r","i","t","t","e","n"," ","i","n"," ","a"," ","f","o","r","e","i","g","n"," ","l","a","n","g","u","a","g","e">> >>,
   correct_answer |-> 0,
   explanation |-> <<"T","h","e"," ","t","e","x","t"," ","p","r","o","v","i","d","e","s"," ","i","n","f","o","r","m","a","t","i","o","n"," ","t","h","a","t"," ","c","a","n"," ","b","e"," ","a","n","a","l","y","z","e","d",".">>]

create_fallback_question(sents) ==
  [question |-> <<"W","h","a","t"," ","i","s"," ","t","h","e"," ","p","r","i","m","a","r","y"," ","c","h","a","r","a","c","t","e","r","i","s","t","i","c"," ","o","f"," ","t","h","e"," ","p","r","o","v","i","d","e","d"," ","t","e","x","t","?">>,
   options |-> << <<"I","t"," ","c","o","n","t","a","i","n","s"," ","i","n","f","o","r","m","a","t","i","v","e"," ","c","o","n","t","e","n","t">>,
                  <<"I","t"," ","i","s"," ","c","o","m","p","l","e","t","e","l","y"," ","e","m","p","t","y">>,
                  <<"I","t"," ","c","o","n","s","i","s","t","s"," ","o","n","l","y"," ","o","f"," ","n","u","m","b","e","r","s">>,
                  <<"I","t"," ","i","s"," ","w","r","i","t","t","e","n"," ","i","n"," ","a"," ","f","o","r","e","i","g","n"," ","l","a","n","g","u","a","g","e">> >>,
   correct_answer |-> 0,
   explanation |-> <<"T","h","e"," ","t","e","x","t"," ","p","r","o","v","i","d","e","s"," ","i","n","f","o","r","m","a","t","i","o","n"," ","t","h","a","t"," ","c","a","n"," ","b","e"," ","a","n","a","l","y","z","e","d",".">>]

create_inference_question(sents, terms) ==
  [question |-> <<"W","h","a","t"," ","c","a","n"," ","b","e"," ","i","n","f","e","r","r","e","d"," ","f","r","o","m"," ","t","h","e"," ","o","v","e","r","a","l","l"," ","c","o","n","t","e","n","t","?">>,
   options |-> << <<"T","h","e"," ","c","o","n","t","e","n","t"," ","p","r","o","v","i","d","e","s"," ","i","n","f","o","r","m","a","t","i","v","e"," ","m","a","t","e","r","i","a","l"," ","o","n"," ","t","h","e"," ","t","o","p","i","c">>,
                  <<"T","h","e"," ","t","e","x","t"," ","i","s"," ","p","u","r","e","l","y"," ","f","i","c","t","i","o","n","a","l"," ","w","i","t","h"," ","n","o"," ","f","a","c","t","u","a","l"," ","b","a","s","i","s">>,
                  <<"T","h","e"," ","c","o","n","t","e","n","t"," ","c","o","n","t","r","a","d","i","c","t","s"," ","a","l","l"," ","e","s","t","a","b","l","i","s","h","e","d"," ","k","n","o","w","l","e","d","g","e">>,
                  <<"T","h","e"," ","t","e","x","t"," ","i","s"," ","p","r","i","m","a","r","i","l","y"," ","f","o","c","u","s","e","d"," ","o","n"," ","e","n","t","e","r","t","a","i","n","m","e","n","t">> >>,
   correct_answer |-> 0,
   explanation |-> <<"T","h","i","s"," ","i","n","f","e","r","e","n","c","e"," ","i","s"," ","m","o","s","t"," ","r","e","a","s","o","n","a","b","l","e"," ","b","a","s","e","d"," ","o","n"," ","t","h","e"," ","i","n","f","o","r","m","a","t","i","v","e"," ","n","a","t","u","r","e"," ","o","f"," ","t","h","e"," ","c","o","n","t","e","n","t",".">>]

\* The correct answer of the definition question (line 118).
definition_answer(term) == <<"T","h","e"," ","t","e","x","t"," ","d","i","s","c","u","s","s","e","s"," ">> \o term \o <<" ","i","n"," ","t","h","e"," ","c","o","n","t","e","x","t"," ","p","r","o","v","i","d","e","d">>

create_definition_question(sents, terms, draws) ==
  IF terms = <<>> THEN create_fallback_question(sents)
  ELSE LET term == random_choice(slice_to(terms, TopChoice), draws.term)
           correct_answer == definition_answer(term)
           options == random_shuffle(
             << correct_answer,
                term \o <<" ","i","s"," ","c","o","m","p","l","e","t","e","l","y"," ","u","n","r","e","l","a","t","e","d"," ","t","o"," ","t","h","e"," ","m","a","i","n"," ","t","o","p","i","c">>,
                term \o <<" ","i","s"," ","m","e","n","t","i","o","n","e","d"," ","o","n","l","y"," ","i","n"," ","p","a","s","s","i","n","g"," ","w","i","t","h","o","u","t"," ","s","i","g","n","i","f","i","c","a","n","c","e">>,
                <<"T","h","e"," ","t","e","x","t"," ","c","o","n","t","r","a","d","i","c","t","s"," ","c","o","m","m","o","n"," ","u","n","d","e","r","s","t","a","n","d","i","n","g"," ","o","f"," ">> \o term >>,
             draws.term_shuffle)
       IN [question |-> <<"W","h","a","t"," ","i","s"," ","t","h","e"," ","m","a","i","n"," ","f","o","c","u","s"," ","r","e","g","a","r","d","i","n","g"," ","'">> \o term \o <<"'"," ","i","n"," ","t","h","e"," ","t","e","x","t","?">>,
           options |-> options,
           correct_answer |-> index(options, correct_answer),
           explanation |-> <<"T","h","e"," ","c","o","r","r","e","c","t"," ","a","n","s","w","e","r"," ","f","o","c","u","s","e","s"," ","o","n"," ","h","o","w"," ">> \o term
                             \o <<" ","r","e","l","a","t","e","s"," ","t","o"," ","t","h","e"," ","m","a","i","n"," ","c","o","n","t","e","n","t",".">>]

\* Mutant of comprehension_answer: the quote without the ellipsis.
comprehension_answer_bare(sentence) == <<"T","h","e"," ","t","e","x","t"," ","m","e","n","t","i","o","n","s",":"," ">> \o slice_to(sentence, QuoteLen)

\* The correct answer of the comprehension question (line 146).
comprehension_answer(sentence) ==
  <<"T","h","e"," ","t","e","x","t"," ","m","e","n","t","i","o","n","s",":"," ">> \o slice_to(sentence, QuoteLen) \o <<".",".",".">>

create_comprehension_question(sents, terms, draws) ==
  IF sents = <<>> THEN create_fallback_question(sents)
  ELSE LET sentence == random_choice(slice_to(sents, FirstSentences), draws.sentence)
           correct_answer == comprehension_answer(sentence)
           options == random_shuffle(
             << correct_answer,
                <<"T","h","e"," ","t","e","x","t"," ","p","r","i","m","a","r","i","l","y"," ","f","o","c","u","s","e","s"," ","o","n"," ","h","i","s","t","o","r","i","c","a","l"," ","e","v","e","n","t","s">>,
                <<"T","h","e"," ","c","o","n","t","e","n","t"," ","i","s"," ","m","a","i","n","l","y"," ","t","h","e","o","r","e","t","i","c","a","l"," ","w","i","t","h","o","u","t"," ","p","r","a","c","t","i","c","a","l"," ","a","p","p","l","i","c","a","t","i","o","n">>,
                <<"T","h","e"," ","t","e","x","t"," ","c","o","n","t","r","a","d","i","c","t","s"," ","e","s","t","a","b","l","i","s","h","e","d"," ","p","r","i","n","c","i","p","l","e","s"," ","i","n"," ","t","h","e"," ","f","i","e","l","d">> >>,
             draws.sentence_shuffle)
       IN [question |-> <<"A","c","c","o","r","d","i","n","g"," ","t","o"," ","t","h","e"," ","t","e","x","t",","," ","w","h","i","c","h"," ","s","t","a","t","e","m","e","n","t"," ","i","s"," ","m","o","s","t"," ","a","c","c","u","r","a","t","e","?">>,
           options |-> options,
           correct_answer |-> index(options, correct_answer),
           explanation |-> <<"T","h","i","s"," ","o","p","t","i","o","n"," ","b","e","s","t"," ","r","e","f","l","e","c","t","s"," ","t","h","e"," ","c","o","n","t","e","n","t"," ","m","e","n","t","i","o","n","e","d"," ","i","n"," ","t","h","e"," ","t","e","x","t",".">>]

question_types == <<"definition", "comprehension", "inference">>

\* Mutant of question_type: the table read one place further.
question_type_shifted(question_num) ==
  question_types[((question_num + 1) % Len(question_types)) + 1]

\* Line 105: the builder of question question_num.
question_type(question_num) == question_types[(question_num % Len(question_types)) + 1]

create_question(sents, terms, question_num, draws) ==
  CASE question_type(question_num) = "definition" ->
         create_definition_question(sents, terms, draws)
    [] question_type(question_num) = "comprehension" ->
         create_comprehension_question(sents, terms, draws)
    [] question_type(question_num) = "inference" ->
         create_inference_question(sents, terms)

\* The loop of lines 87-94.
questions_from(sents, terms, draws) ==
  [n \in 1..NumQuestions |-> create_question(sents, terms, n - 1, draws)]

generate_quiz_questions(text, draws) ==
  questions_from(extract_sentences(text), extract_key_terms(text), draws)

\* How many options a question has.
NumOptions == 4

\* The arrangements random.shuffle(options) can give.
option_orders == shuffle_draws(NumOptions)

\* The draws a call of generate_quiz_questions can consume.
quiz_draws(sents, terms) ==
  {[sample |-> <<>>, term |-> t, term_shuffle |-> tp,
    sentence |-> s, sentence_shuffle |-> sp] :
     t \in (IF terms = <<>> THEN {0} ELSE choice_draws(slice_to(terms, TopChoice))),
     tp \in (IF terms = <<>> THEN {<<>>} ELSE option_orders),
     s \in (IF sents = <<>> THEN {0}
            ELSE choice_draws(slice_to(sents, FirstSentences))),
     sp \in (IF sents = <<>> THEN {<<>>} ELSE option_orders)}

(***************************************************************************)
(* The export of main(), lines 316-327                                     *)
(***************************************************************************)
RECURSIVE str_of_int(_)
\* str(n) of a natural number.
str_of_int(n) ==
  IF n < 10 THEN <<DigitChars[n + 1]>>
  ELSE str_of_int(n \div 10) \o <<DigitChars[(n % 10) + 1]>>

\* chr(65 + j) for the letters.
chr65(j) == UpperChars[j + 1]

export_option(q, j) ==
  (IF j = q.correct_answer THEN <<"U+2705">> ELSE <<" "," ">>) \o <<" ">> \o <<chr65(j)>> \o <<"."," ">>
    \o q.options[j + 1] \o <<"\n">>

export_question(q, i) ==
  <<"*","*","Q","u","e","s","t","i","o","n"," ">> \o str_of_int(i) \o <<":","*","*"," ">> \o q.question \o <<"\n">>
    \o join([j \in 1..Len(q.options) |-> export_option(q, j - 1)])
    \o <<"*","E","x","p","l","a","n","a","t","i","o","n",":"," ">> \o q.explanation \o <<"*","\n","\n">>

export_of(the_assignments, questions) ==
  <<"#"," ","G","e","n","e","r","a","t","e","d"," ","A","s","s","i","g","n","m","e","n","t","s"," ","a","n","d"," ","Q","u","i","z","\n","\n">> \o <<"#","#"," ","A","s","s","i","g","n","m","e","n","t"," ","Q","u","e","s","t","i","o","n","s","\n","\n">>
    \o join([i \in 1..Len(the_assignments) |->
               <<"*","*","A","s","s","i","g","n","m","e","n","t"," ">> \o str_of_int(i) \o <<":","*","*","\n">> \o the_assignments[i] \o <<"\n","\n">>])
    \o <<"#","#"," ","Q","u","i","z"," ","Q","u","e","s","t","i","o","n","s","\n","\n">>
    \o join([i \in 1..Len(questions) |-> export_question(questions[i], i)])

(***************************************************************************)
(* Inputs: texts put together from a few pieces.                           *)
(***************************************************************************)
MaxPieces == 3

MaxParts == 2

TextsOf(pieces, n) == {join(ps) : ps \in UNION {[1..k -> pieces] : k \in 0..n}}

TermPieces ==
  { <<"c","a","t","s"," ">>, <<"D","a","t","a"," ">>, <<"d","a","t","a">>, <<"2">>, <<"_">>, <<"w","i","t","h"," ">>, <<"c","a","t"," ">>, <<"U+00E9">>,
    <<"a","l","p","h","a"," ","b","r","a","v","o"," ","c","h","a","r","l","i","e"," ","d","e","l","t","a"," ","e","c","h","o"," ","f","o","x","t","r","o","t"," ","g","o","l","f"," ","h","o","t","e","l"," ","i","n","d","i","a"," ","j","u","l","i","e","t"," ","k","i","l","o"," ","l","i","m","a"," ">> }

TermTexts == TextsOf(TermPieces, MaxPieces)

AssignPieces == { <<"c","a","t","s"," ">>, <<"D","a","t","a"," ">>, <<"w","i","t","h"," ">>, <<"x">> }

AssignTexts == TextsOf(AssignPieces, MaxPieces)

AssignTopics == { None, <<>>, <<" ">>, <<"A","I">>, <<"t","h","e"," ","{","}"," ","o","f"," ","c","a","t","s">> }

QuizParts ==
  { <<"C","a","t","s"," ","a","r","e"," ","n","i","c","e",".">>, <<" ","C","a","t","s"," ","a","r","e"," ","f","u","r","r","y"," ","a","n","i","m","a","l","s"," ","t","h","a","t"," ","p","u","r","r",".">>, <<"D","o","g","s"," ","b","a","r","k",".">>,
    <<"t","h","i","s"," ","i","s"," ","t","h","a","t"," ","a","n","d"," ","t","h","o","s","e","!">> }

QuizTexts == TextsOf(QuizParts, MaxParts) \cup { <<"x">> }

MainTexts == { <<>>, <<" ">>, <<" ","\n","\t">>, <<"x">>, <<" ","x","\n">>, <<"T","h","e"," ","k","i","t","t","e","n","s"," ","a","r","e",".">> }

MainTopics == { <<>>, <<" ">>, <<"A","I">> }

CallTexts == { <<"x">>, <<"C","a","t","s"," ","p","u","r","r",".">> }

CallTopics == { None, <<"A","I">> }

(***************************************************************************)
(* The state before a call: a generator as __init__ leaves it.             *)
(***************************************************************************)
Fresh ==
  /\ pc = "start"
  /\ assignment_templates = init_assignment_templates
  /\ question_starters = init_question_starters
  /\ sentences = None
  /\ key_terms = None
  /\ subject = None
  /\ assignments = None
  /\ quiz_questions = None
  /\ outcome = None
  /\ export_content = None
  /\ invoked = {}
  /\ rnd = NoDraws

(***************************************************************************)
(* SpecTerms: one call of extract_key_terms.                               *)
(***************************************************************************)
InitTerms == input_text \in TermTexts /\ topic = None /\ Fresh

ExtractKeyTerms ==
  /\ pc = "start"
  /\ key_terms' = extract_key_terms(input_text)
  /\ pc' = "done"
  /\ UNCHANGED <<input_text, topic, assignment_templates, question_starters, sentences,
                 subject,
                 assignments, quiz_questions, outcome, export_content, invoked, rnd>>

NextTerms == ExtractKeyTerms

SpecTerms == InitTerms /\ [][NextTerms]_vars

(***************************************************************************)
(* SpecAssign: one call of generate_assignments.                           *)
(***************************************************************************)
InitAssign == input_text \in AssignTexts /\ topic \in AssignTopics /\ Fresh

GenerateAssignments ==
  /\ pc = "start"
  /\ subject' = resolve_subject(input_text, topic)
  /\ \E draw \in sample_draws(Len(assignment_templates), NumSelected) :
       /\ rnd' = [NoDraws EXCEPT !.sample = draw]
       /\ assignments' = assignments_for(assignment_templates, subject', draw)
  /\ pc' = "done"
  /\ UNCHANGED <<input_text, topic, assignment_templates, question_starters, sentences,
                 key_terms,
                 quiz_questions, outcome, export_content, invoked>>

NextAssign == GenerateAssignments

SpecAssign == InitAssign /\ [][NextAssign]_vars

(***************************************************************************)
(* SpecQuiz: one call of generate_quiz_questions.                          *)
(***************************************************************************)
InitQuiz == input_text \in QuizTexts /\ topic = None /\ Fresh

GenerateQuizQuestions ==
  /\ pc = "start"
  /\ sentences' = extract_sentences(input_text)
  /\ key_terms' = extract_key_terms(input_text)
  /\ \E draws \in quiz_draws(sentences', key_terms') :
       /\ rnd' = draws
       /\ quiz_questions' = questions_from(sentences', key_terms', draws)
  /\ pc' = "done"
  /\ UNCHANGED <<input_text, topic, assignment_templates, question_starters,
                 subject, assignments, outcome, export_content, invoked>>

NextQuiz == GenerateQuizQuestions

SpecQuiz == InitQuiz /\ [][NextQuiz]_vars

(***************************************************************************)
(* Spec: the Generate button of main(), lines 251-337.                     *)
(***************************************************************************)
Init == input_text \in MainTexts /\ topic \in MainTopics /\ Fresh

\* Mutant of has_content: the text tested without strip().
has_content_unstripped(text) == text # <<>>

\* Line 252: the text has something besides white space.
has_content(text) == strip(text) # <<>>

Generate ==
  /\ pc = "start"
  /\ has_content(input_text)
  /\ assignment_templates' = init_assignment_templates
  /\ question_starters' = init_question_starters
  /\ subject' = resolve_subject(input_text, topic)
  /\ sentences' = extract_sentences(input_text)
  /\ key_terms' = extract_key_terms(input_text)
  /\ \E draw \in sample_draws(Len(assignment_templates'), NumSelected),
        draws \in quiz_draws(sentences', key_terms') :
       /\ rnd' = [draws EXCEPT !.sample = draw]
       /\ assignments' = assignments_for(assignment_templates', subject', draw)
       /\ quiz_questions' = questions_from(sentences', key_terms', draws)
  /\ export_content' = export_of(assignments', quiz_questions')
  /\ invoked' = {"generate_assignments", "generate_quiz_questions"}
  /\ outcome' = "success"
  /\ pc' = "done"
  /\ UNCHANGED <<input_text, topic>>

\* Line 337: st.error.
RejectEmpty ==
  /\ pc = "start"
  /\ ~has_content(input_text)
  /\ outcome' = "error"
  /\ pc' = "done"
  /\ UNCHANGED <<input_text, topic, assignment_templates, question_starters, sentences,
                 key_terms,
                 subject, assignments, quiz_questions, export_content, invoked, rnd>>

Next == Generate \/ RejectEmpty

Spec == Init /\ [][Next]_vars

(***************************************************************************)
(* SpecCalls: any calls, one after another, on one generator.              *)
(***************************************************************************)
InitCalls == input_text = <<>> /\ topic = None /\ Fresh

\* Mutant of fields_after: the call reverses the list in place.
fields_after_reversed(fields) == [i \in 1..Len(fields) |-> fields[Len(fields) + 1 - i]]

\* What a call leaves of the generator's fields.
fields_after(fields) == fields

CallGenerateAssignments ==
  /\ \E text \in CallTexts, a_topic \in CallTopics,
        draw \in sample_draws(Len(assignment_templates), NumSelected) :
       /\ input_text' = text
       /\ topic' = a_topic
       /\ rnd' = [NoDraws EXCEPT !.sample = draw]
       /\ assignments' = generate_assignments(assignment_templates, text, a_topic, draw)
  /\ assignment_templates' = fields_after(assignment_templates)
  /\ question_starters' = fields_after(question_starters)
  /\ quiz_questions' = None
  /\ sentences' = None
  /\ key_terms' = None
  /\ invoked' = invoked \cup {"generate_assignments"}
  /\ pc' = "assignments"
  /\ UNCHANGED <<subject, outcome, export_content>>

CallGenerateQuizQuestions ==
  /\ \E text \in CallTexts :
       /\ input_text' = text
       /\ sentences' = extract_sentences(text)
       /\ key_terms' = extract_key_terms(text)
       /\ \E draws \in quiz_draws(sentences', key_terms') :
            /\ rnd' = draws
            /\ quiz_questions' = questions_from(sentences', key_terms', draws)
  /\ topic' = None
  /\ assignment_templates' = fields_after(assignment_templates)
  /\ question_starters' = fields_after(question_starters)
  /\ assignments' = None
  /\ invoked' = invoked \cup {"generate_quiz_questions"}
  /\ pc' = "questions"
  /\ UNCHANGED <<subject, outcome, export_content>>

NextCalls == CallGenerateAssignments \/ CallGenerateQuizQuestions

SpecCalls == InitCalls /\ [][NextCalls]_vars

(***************************************************************************)
(* Properties of extract_key_terms (SpecTerms).                            *)
(***************************************************************************)
\* t stands at offset i of s as a word of its own: no word character touches it.
StandsAt(s, t, i) ==
  /\ i + Len(t) <= Len(s)
  /\ s[i + 1] = t[1]
  /\ SubSeq(s, i + 1, i + Len(t)) = t
  /\ (i = 0 \/ ~IsWordChar(s[i]))
  /\ (i + Len(t) = Len(s) \/ ~IsWordChar(s[i + Len(t) + 1]))

PlacesOf(s, t) == {i \in 0..(Len(s) - Len(t)) : StandsAt(s, t, i)}

Frequency(s, t) == Cardinality(PlacesOf(s, t))

FirstPlace(s, t) == CHOOSE i \in PlacesOf(s, t) : \A j \in PlacesOf(s, t) : i <= j

RECURSIVE RunEnd(_, _)
\* Where the run of letters that holds offset a ends.
RunEnd(s, a) == IF a < Len(s) /\ IsLetter(s[a + 1]) THEN RunEnd(s, a + 1) ELSE a

\* The maximal runs of letters of s, each as the offsets around it.
LetterRuns(s) ==
  {<<a, RunEnd(s, a)>> :
     a \in {a \in 0..(Len(s) - 1) : IsLetter(s[a + 1]) /\ (a = 0 \/ ~IsLetter(s[a]))}}

RunText(s, r) == SubSeq(s, r[1] + 1, r[2])

Qualifies(w) == Len(w) > 3 /\ w \notin stopwords

\* The runs of letters that no word character touches.
LoneRuns(s) ==
  {r \in LetterRuns(s) : /\ (r[1] = 0 \/ ~IsWordChar(s[r[1]]))
                         /\ (r[2] = Len(s) \/ ~IsWordChar(s[r[2] + 1]))}

\* C6: extract_key_terms returns at most 10 terms, none twice, each of
\* lowercase ASCII letters, longer than 3 and no stopword, in non-increasing
\* order of frequency in the text, equal frequencies in order of first
\* occurrence; a text with no qualifying token yields the empty sequence.
C6_RankedTerms ==
  pc = "done" =>
    LET s == lower(input_text)
    IN /\ Len(key_terms) <= 10
       /\ \A i, j \in 1..Len(key_terms) : i # j => key_terms[i] # key_terms[j]
       /\ \A i \in 1..Len(key_terms) :
            /\ \A k \in 1..Len(key_terms[i]) : key_terms[i][k] \in Range(LowerChars)
            /\ Qualifies(key_terms[i])
       /\ \A i \in 1..(Len(key_terms) - 1) :
            \/ Frequency(s, key_terms[i]) > Frequency(s, key_terms[i + 1])
            \/ /\ Frequency(s, key_terms[i]) = Frequency(s, key_terms[i + 1])
               /\ FirstPlace(s, key_terms[i]) < FirstPlace(s, key_terms[i + 1])
       /\ (\A r \in LoneRuns(s) : ~Qualifies(RunText(s, r))) => key_terms = <<>>

\* Ten terms are returned, a more frequent one first, then a tie.
C6_Witness ==
  /\ pc = "done"
  /\ Len(key_terms) = 10
  /\ LET s == lower(input_text)
     IN /\ Frequency(s, key_terms[1]) > Frequency(s, key_terms[2])
        /\ Frequency(s, key_terms[2]) = Frequency(s, key_terms[3])

\* C7 as stated: every non-letter only separates, so each run of letters that
\* passes the filters is a term (among the 10 returned), also next to a digit.
C7_EveryLetterRunCounts ==
  pc = "done" =>
    LET s == lower(input_text)
    IN \A r \in LetterRuns(s) :
         Qualifies(RunText(s, r)) => RunText(s, r) \in Range(key_terms) \/ Len(key_terms) = 10

\* C7 amended: the tokens are the runs of letters that no word character
\* (letter, digit, underscore) touches; a run next to a digit or an underscore
\* is no token and contributes no term.
C7_LoneRunsCount ==
  pc = "done" =>
    LET s == lower(input_text)
        lone == {RunText(s, r) : r \in LoneRuns(s)}
    IN /\ Range(key_terms) \subseteq {w \in lone : Qualifies(w)}
       /\ Len(key_terms) < 10 => {w \in lone : Qualifies(w)} \subseteq Range(key_terms)

\* A text with a qualifying run of letters next to a digit or an underscore,
\* which is no term, and another that is one.
C7_Witness ==
  /\ pc = "done"
  /\ key_terms # <<>>
  /\ LET s == lower(input_text)
     IN \E r \in LetterRuns(s) :
          /\ Qualifies(RunText(s, r))
          /\ RunText(s, r) \notin Range(key_terms)
          /\ r[2] < Len(s)
          /\ s[r[2] + 1] \in {"2", "_"}

(***************************************************************************)
(* Properties of generate_assignments (SpecAssign).                        *)
(***************************************************************************)
\* sub occurs in s.
Contains(s, sub) == \E i \in 0..(Len(s) - Len(sub)) : SubSeq(s, i + 1, i + Len(sub)) = sub

StartsWith(s, pre) == Len(pre) <= Len(s) /\ SubSeq(s, 1, Len(pre)) = pre

EndsWith(s, suf) == Len(suf) <= Len(s) /\ SubSeq(s, Len(s) - Len(suf) + 1, Len(s)) = suf

\* A template of the pool without its placeholder, which ends it.
Stem(i) == SubSeq(init_assignment_templates[i], 1, Len(init_assignment_templates[i]) - 2)

\* C3: generate_assignments returns exactly 2 prompts, distinct strings built
\* from 2 different templates of the pool of 8, both containing the same
\* resolved subject.
C3_TwoDistinctPrompts ==
  pc = "done" =>
    /\ Len(init_assignment_templates) = 8
    /\ Len(assignments) = 2
    /\ assignments[1] # assignments[2]
    /\ \E i, j \in 1..8 : /\ i # j
                          /\ assignments[1] = Stem(i) \o subject
                          /\ assignments[2] = Stem(j) \o subject
    /\ Contains(assignments[1], subject)
    /\ Contains(assignments[2], subject)

\* A topic that holds a placeholder of its own fills the last and the first template.
C3_Witness ==
  /\ pc = "done"
  /\ topic = <<"t","h","e"," ","{","}"," ","o","f"," ","c","a","t","s">>
  /\ assignments = << <<"A","s","s","e","s","s"," ","t","h","e"," ","s","t","r","e","n","g","t","h","s"," ","a","n","d"," ","w","e","a","k","n","e","s","s","e","s"," ","o","f",":"," ","t","h","e"," ","{","}"," ","o","f"," ","c","a","t","s">>,
                      <<"A","n","a","l","y","z","e"," ","t","h","e"," ","m","a","i","n"," ","t","h","e","m","e","s"," ","i","n"," ","t","h","e"," ","f","o","l","l","o","w","i","n","g"," ","c","o","n","t","e","n","t",":"," ","t","h","e"," ","{","}"," ","o","f"," ","c","a","t","s">> >>

\* C5: the subject is the topic as given when it is present and non-empty
\* (white space included), else "the concept of " and the first key term when
\* the text has key terms, else "the given content".
C5_SubjectRule ==
  pc = "done" =>
    /\ subject = (IF topic # None /\ Len(topic) > 0 THEN topic
                  ELSE IF extract_key_terms(input_text) # <<>>
                       THEN <<"t","h","e"," ","c","o","n","c","e","p","t"," ","o","f"," ">> \o extract_key_terms(input_text)[1]
                       ELSE <<"t","h","e"," ","g","i","v","e","n"," ","c","o","n","t","e","n","t">>)
    /\ \A a \in 1..Len(assignments) : EndsWith(assignments[a], subject)

\* A topic of white space alone is the subject of a text that has key terms.
C5_Witness ==
  /\ pc = "done"
  /\ topic = <<" ">>
  /\ subject = <<" ">>
  /\ extract_key_terms(input_text) # <<>>
  /\ EndsWith(assignments[1], <<":"," "," ">>)

(***************************************************************************)
(* Properties of generate_quiz_questions (SpecQuiz).                       *)
(***************************************************************************)
FallbackRecord ==
  [question |-> <<"W","h","a","t"," ","i","s"," ","t","h","e"," ","p","r","i","m","a","r","y"," ","c","h","a","r","a","c","t","e","r","i","s","t","i","c"," ","o","f"," ","t","h","e"," ","p","r","o","v","i","d","e","d"," ","t","e","x","t","?">>,
   options |-> << <<"I","t"," ","c","o","n","t","a","i","n","s"," ","i","n","f","o","r","m","a","t","i","v","e"," ","c","o","n","t","e","n","t">>, <<"I","t"," ","i","s"," ","c","o","m","p","l","e","t","e","l","y"," ","e","m","p","t","y">>,
                  <<"I","t"," ","c","o","n","s","i","s","t","s"," ","o","n","l","y"," ","o","f"," ","n","u","m","b","e","r","s">>, <<"I","t"," ","i","s"," ","w","r","i","t","t","e","n"," ","i","n"," ","a"," ","f","o","r","e","i","g","n"," ","l","a","n","g","u","a","g","e">> >>,
   correct_answer |-> 0,
   explanation |-> <<"T","h","e"," ","t","e","x","t"," ","p","r","o","v","i","d","e","s"," ","i","n","f","o","r","m","a","t","i","o","n"," ","t","h","a","t"," ","c","a","n"," ","b","e"," ","a","n","a","l","y","z","e","d",".">>]

InferenceRecord ==
  [question |-> <<"W","h","a","t"," ","c","a","n"," ","b","e"," ","i","n","f","e","r","r","e","d"," ","f","r","o","m"," ","t","h","e"," ","o","v","e","r","a","l","l"," ","c","o","n","t","e","n","t","?">>,
   options |-> << <<"T","h","e"," ","c","o","n","t","e","n","t"," ","p","r","o","v","i","d","e","s"," ","i","n","f","o","r","m","a","t","i","v","e"," ","m","a","t","e","r","i","a","l"," ","o","n"," ","t","h","e"," ","t","o","p","i","c">>,
                  <<"T","h","e"," ","t","e","x","t"," ","i","s"," ","p","u","r","e","l","y"," ","f","i","c","t","i","o","n","a","l"," ","w","i","t","h"," ","n","o"," ","f","a","c","t","u","a","l"," ","b","a","s","i","s">>,
                  <<"T","h","e"," ","c","o","n","t","e","n","t"," ","c","o","n","t","r","a","d","i","c","t","s"," ","a","l","l"," ","e","s","t","a","b","l","i","s","h","e","d"," ","k","n","o","w","l","e","d","g","e">>,
                  <<"T","h","e"," ","t","e","x","t"," ","i","s"," ","p","r","i","m","a","r","i","l","y"," ","f","o","c","u","s","e","d"," ","o","n"," ","e","n","t","e","r","t","a","i","n","m","e","n","t">> >>,
   correct_answer |-> 0,
   explanation |-> <<"T","h","i","s"," ","i","n","f","e","r","e","n","c","e"," ","i","s"," ","m","o","s","t"," ","r","e","a","s","o","n","a","b","l","e"," ","b","a","s","e","d"," ","o","n"," ","t","h","e"," ","i","n","f","o","r","m","a","t","i","v","e"," ","n","a","t","u","r","e"," ","o","f"," ","t","h","e"," ","c","o","n","t","e","n","t",".">>]

\* The correct-answer text each strategy designates, from the term and the
\* sentence the random source chose.
Designated(n) ==
  CASE n = 1 -> IF key_terms = <<>> THEN <<"I","t"," ","c","o","n","t","a","i","n","s"," ","i","n","f","o","r","m","a","t","i","v","e"," ","c","o","n","t","e","n","t">>
                ELSE <<"T","h","e"," ","t","e","x","t"," ","d","i","s","c","u","s","s","e","s"," ">> \o key_terms[rnd.term] \o <<" ","i","n"," ","t","h","e"," ","c","o","n","t","e","x","t"," ","p","r","o","v","i","d","e","d">>
    [] n = 2 -> IF sentences = <<>> THEN <<"I","t"," ","c","o","n","t","a","i","n","s"," ","i","n","f","o","r","m","a","t","i","v","e"," ","c","o","n","t","e","n","t">>
                ELSE <<"T","h","e"," ","t","e","x","t"," ","m","e","n","t","i","o","n","s",":"," ">>
                       \o [k \in 1..(IF Len(sentences[rnd.sentence]) > 50 THEN 50
                                     ELSE Len(sentences[rnd.sentence])) |->
                             sentences[rnd.sentence][k]]
                       \o <<".",".",".">>
    [] n = 3 -> <<"T","h","e"," ","c","o","n","t","e","n","t"," ","p","r","o","v","i","d","e","s"," ","i","n","f","o","r","m","a","t","i","v","e"," ","m","a","t","e","r","i","a","l"," ","o","n"," ","t","h","e"," ","t","o","p","i","c">>

\* C1: each of the 3 records has exactly 4 options, a correct_answer in 0..3,
\* and options[correct_answer] is the correct-answer text of its strategy.
C1_CorrectIndexTracksAnswer ==
  pc = "done" =>
    /\ Len(quiz_questions) = 3
    /\ \A n \in 1..3 :
         /\ Len(quiz_questions[n].options) = 4
         /\ quiz_questions[n].correct_answer \in 0..3
         /\ quiz_questions[n].options[quiz_questions[n].correct_answer + 1] = Designated(n)

\* Both shuffles moved the correct answer away from the first place.
C1_Witness ==
  /\ pc = "done"
  /\ key_terms # <<>>
  /\ sentences # <<>>
  /\ quiz_questions[1].correct_answer = 3
  /\ quiz_questions[2].correct_answer = 2

IsDefinitionRecord(q) ==
  \/ key_terms = <<>> /\ q = FallbackRecord
  \/ \E i \in 1..Len(key_terms) :
       q.question = <<"W","h","a","t"," ","i","s"," ","t","h","e"," ","m","a","i","n"," ","f","o","c","u","s"," ","r","e","g","a","r","d","i","n","g"," ","'">> \o key_terms[i] \o <<"'"," ","i","n"," ","t","h","e"," ","t","e","x","t","?">>

IsComprehensionRecord(q) ==
  \/ sentences = <<>> /\ q = FallbackRecord
  \/ q.question = <<"A","c","c","o","r","d","i","n","g"," ","t","o"," ","t","h","e"," ","t","e","x","t",","," ","w","h","i","c","h"," ","s","t","a","t","e","m","e","n","t"," ","i","s"," ","m","o","s","t"," ","a","c","c","u","r","a","t","e","?">>

\* C2: a non-empty text yields exactly 3 records: the definition strategy's,
\* the comprehension strategy's and the inference strategy's, in that order.
C2_ThreeInFixedOrder ==
  pc = "done" /\ input_text # <<>> =>
    /\ Len(quiz_questions) = 3
    /\ IsDefinitionRecord(quiz_questions[1])
    /\ IsComprehensionRecord(quiz_questions[2])
    /\ quiz_questions[3] = InferenceRecord

\* A text with terms and sentences: no strategy falls back.
C2_Witness ==
  /\ pc = "done"
  /\ input_text # <<>>
  /\ Len(key_terms) >= 5
  /\ Len(sentences) > 1
  /\ quiz_questions[1] # FallbackRecord
  /\ quiz_questions[2] # FallbackRecord

\* C4: slot 0 is the fallback record exactly when the text has no qualifying
\* term, slot 1 exactly when it has no qualifying sentence, each whatever the
\* other does; for "x" both fall back and slot 2 is the inference record.
C4_FallbackExactlyWhenEmpty ==
  pc = "done" =>
    /\ quiz_questions[1] = FallbackRecord <=> key_terms = <<>>
    /\ quiz_questions[2] = FallbackRecord <=> sentences = <<>>
    /\ input_text = <<"x">> =>
         /\ quiz_questions[1] = FallbackRecord
         /\ quiz_questions[2] = FallbackRecord
         /\ quiz_questions[3] = InferenceRecord

\* A sentence of stopwords: the definition slot falls back, the comprehension slot does not.
C4_Witness ==
  /\ pc = "done"
  /\ input_text = <<"t","h","i","s"," ","i","s"," ","t","h","a","t"," ","a","n","d"," ","t","h","o","s","e","!">>
  /\ quiz_questions[1] = FallbackRecord
  /\ quiz_questions[2] # FallbackRecord

CatsText == <<"C","a","t","s"," ","a","r","e"," ","n","i","c","e","."," ","C","a","t","s"," ","a","r","e"," ","f","u","r","r","y"," ","a","n","i","m","a","l","s"," ","t","h","a","t"," ","p","u","r","r",".">>

CorrectOption(q) == q.options[q.correct_answer + 1]

\* C10 as stated: for the cats text the comprehension record's correct option
\* always starts with "The text mentions: Cats are nice" and ends with "...".
C10_AlwaysFirstSentence ==
  pc = "done" /\ input_text = CatsText =>
    /\ StartsWith(CorrectOption(quiz_questions[2]), <<"T","h","e"," ","t","e","x","t"," ","m","e","n","t","i","o","n","s",":"," ","C","a","t","s"," ","a","r","e"," ","n","i","c","e">>)
    /\ EndsWith(CorrectOption(quiz_questions[2]), <<".",".",".">>)

\* C10 amended: the correct option quotes whichever of the two sentences was
\* drawn: "The text mentions: Cats are nice..." for the first and "The text
\* mentions: Cats are furry animals that purr..." for the second.
C10_EitherSentence ==
  pc = "done" /\ input_text = CatsText =>
    /\ rnd.sentence \in {1, 2}
    /\ rnd.sentence = 1 =>
         CorrectOption(quiz_questions[2]) = <<"T","h","e"," ","t","e","x","t"," ","m","e","n","t","i","o","n","s",":"," ","C","a","t","s"," ","a","r","e"," ","n","i","c","e",".",".",".">>
    /\ rnd.sentence = 2 =>
         CorrectOption(quiz_questions[2]) =
           <<"T","h","e"," ","t","e","x","t"," ","m","e","n","t","i","o","n","s",":"," ","C","a","t","s"," ","a","r","e"," ","f","u","r","r","y"," ","a","n","i","m","a","l","s"," ","t","h","a","t"," ","p","u","r","r",".",".",".">>

\* The second sentence was drawn.
C10_Witness ==
  /\ pc = "done"
  /\ input_text = CatsText
  /\ rnd.sentence = 2
  /\ quiz_questions[2].correct_answer = 1

(***************************************************************************)
(* Properties of the Generate button (Spec).                               *)
(***************************************************************************)
OnlyWhiteSpace(s) == \A i \in 1..Len(s) : s[i] \in {" ", "\t", "\n", "\r"}

\* C8: an empty or white-space text ends in the error, no generator is called
\* and nothing is produced; any other text succeeds, both generators called,
\* with 2 assignments and 3 questions.
C8_EmptyInputRejected ==
  pc = "done" =>
    IF OnlyWhiteSpace(input_text)
    THEN /\ outcome = "error"
         /\ invoked = {}
         /\ assignments = None /\ quiz_questions = None /\ export_content = None
    ELSE /\ outcome = "success"
         /\ invoked = {"generate_assignments", "generate_quiz_questions"}
         /\ Len(assignments) = 2
         /\ Len(quiz_questions) = 3

\* A text of a blank, a newline and a tab was rejected.
C8_Witness ==
  /\ pc = "done"
  /\ input_text = <<" ","\n","\t">>
  /\ outcome = "error"
  /\ invoked = {}

====
